---------------------------- MODULE Spec2Model ----------------------------
(***************************************************************************)
(* A model of the GitLab commit-statistics client (package gitlab):        *)
(* GetProjectCommitStats (commit lister, worker pool, closer goroutine and *)
(* the deduplicating reducer), GetProjects and their retry loops,          *)
(* MergeProjectStats, and the analyze command that runs, merges, exports.  *)
(***************************************************************************)
EXTENDS Bags, FiniteSets, Integers, Naturals, Sequences, TLC

(***************************************************************************)
(* Program constants.                                                      *)
(***************************************************************************)
maxRetries == 5
workerCount == 10
commitChanCap == 100
initialRetryDelay == 1

(***************************************************************************)
(* Bounds of the model.                                                    *)
(***************************************************************************)
\* the remote serves this many listing pages that may be non-empty
MaxPages == 2
\* the most commits one listing page of the remote holds
MaxPerPage == 2
\* the most commits over all listing pages of the remote
MaxListed == 2
\* the most transport faults (failed attempts, undecodable or partial
\* bodies) the environment injects in one run
MaxFaults == 5
\* the most non-empty pages of the remote project list
MaxProjectPages == 2
\* the most results the reducer receives when it is fed an arbitrary stream
MaxArrivals == 3
\* the most project IDs the analyze command is asked for
MaxProjects == 2
\* the most results the reducer receives in one project run of the analyze
\* command
MaxRunArrivals == 2
\* the most per-project maps in one call of MergeProjectStats
MaxMaps == 3
\* the most per-project maps in one call of MergeProjectStats on map objects
MaxHeapMaps == 2
\* the most calls of MergeProjectStats on the same map objects
MaxMergeCalls == 2

(***************************************************************************)
(* Values.                                                                 *)
(***************************************************************************)
\* the nil error, and the errors of the package
NoErr == [kind |-> "nil", page |-> 0, attempt |-> 0]

\* the error doRequest returned on the given attempt of a call
TransportErr(attempt) == [kind |-> "transport", page |-> 0, attempt |-> attempt]

\* the error json.Unmarshal returned
DecodeErr == [kind |-> "decode", page |-> 0, attempt |-> 0]

\* fmt.Errorf of the lister around a transport or decode error of a page
ListingErr(page, err) == [kind |-> "listing-" \o err.kind, page |-> page, attempt |-> err.attempt]

\* fmt.Errorf of GetProjects around a transport or decode error of a page
ProjectsErr(page, err) == [kind |-> "projects-" \o err.kind, page |-> page, attempt |-> err.attempt]

NoBody == [kind |-> "none", attempt |-> 0]

ZeroStats == [Additions |-> 0, Deletions |-> 0, Total |-> 0]

NoCommit == [ID |-> "", AuthorName |-> "", Message |-> "", ParentIDs |-> << >>]

\* the commits of the remote repository, as the listing endpoint reports them
RemoteCommits ==
  { [ID |-> "c1", AuthorName |-> "alice", Message |-> "fix", ParentIDs |-> << >>],
    [ID |-> "c2", AuthorName |-> "alice", Message |-> "fix", ParentIDs |-> <<"c1">>],
    [ID |-> "c3", AuthorName |-> "bob", Message |-> "merge", ParentIDs |-> <<"c0", "c2">>],
    [ID |-> "c4", AuthorName |-> "bob", Message |-> "merge", ParentIDs |-> <<"c3">>] }

\* the diff stats the detail endpoint reports for a commit; Total is the
\* remote's own figure and need not be Additions + Deletions
RemoteStats(id) ==
  CASE id = "c1" -> [Additions |-> 1, Deletions |-> 0, Total |-> 2]
    [] id = "c2" -> [Additions |-> 1, Deletions |-> 0, Total |-> 2]
    [] id = "c3" -> [Additions |-> 0, Deletions |-> 2, Total |-> 3]
    [] OTHER     -> [Additions |-> 0, Deletions |-> 2, Total |-> 3]

\* len(commit.ID): c4 is listed with an abbreviated ID of seven characters
IDLength(id) == IF id = "c4" THEN 7 ELSE 40

ProjectIDs == {"p1"}


(***************************************************************************)
(* The retry loop around doRequest, shared by the three call sites.        *)
(***************************************************************************)
\* the locals of one retry loop before its first iteration; log and slept
\* record the outcome of every attempt and every backoff sleep of the call
NewCall(delay) ==
  [retry |-> 0, retryDelay |-> delay, body |-> NoBody, err |-> NoErr,
   log |-> << >>, slept |-> << >>, done |-> FALSE]

\* what doRequest can return on the given attempt: an error and no body, or
\* one of the given kinds of body and no error
Outcomes(attempt, kinds) ==
  { [err |-> TransportErr(attempt), body |-> NoBody] }
    \cup { [err |-> NoErr, body |-> [kind |-> k, attempt |-> attempt]] : k \in kinds }

\* an outcome the environment injects as a fault
IsFault(outcome) == outcome.err # NoErr \/ outcome.body.kind \in {"malformed", "nostats"}

BreaksLoopNever(err) == FALSE

\* if err == nil { break }
BreaksLoop(err) == err = NoErr

RetryBoundOffByOne(retry) == retry < maxRetries + 1

\* the loop condition retry < maxRetries
RetryBound(retry) == retry < maxRetries

\* one iteration of the loop: the backoff sleep of a retry, the request, and
\* the break or retry++
RetryIteration(call, outcome) ==
  LET sleeps == call.retry > 0
      brk    == BreaksLoop(outcome.err)
      retry  == IF brk THEN call.retry ELSE call.retry + 1
  IN  [retry      |-> retry,
       retryDelay |-> IF sleeps THEN call.retryDelay * 2 ELSE call.retryDelay,
       body       |-> outcome.body,
       err        |-> outcome.err,
       log        |-> Append(call.log, IF outcome.err = NoErr THEN "ok" ELSE "fail"),
       slept      |-> IF sleeps THEN Append(call.slept, call.retryDelay) ELSE call.slept,
       done       |-> brk \/ ~RetryBound(retry)]

(***************************************************************************)
(* The reducer: the body of the loop over resultChan.                      *)
(***************************************************************************)
\* CommitIdentifier{Message, AuthorName, Stats}
CommitIdentifier(commit, stats) ==
  [Message |-> commit.Message, AuthorName |-> commit.AuthorName, Stats |-> stats]

SeenSignatureNever(commitSignatures, identifier) == FALSE

\* commitSignatures[identifier]
SeenSignature(commitSignatures, identifier) == identifier \in commitSignatures

HasProcessedParentFirstOnly(processedCommits, commit) ==
  Len(commit.ParentIDs) > 1 /\ commit.ParentIDs[1] \in processedCommits

\* a merge commit one of whose parents was processed
HasProcessedParent(processedCommits, commit) ==
  /\ Len(commit.ParentIDs) > 1
  /\ \E i \in 1..Len(commit.ParentIDs) : commit.ParentIDs[i] \in processedCommits

AlreadyProcessedNever(processedCommits, commit) == FALSE

\* processedCommits[commit.ID]
AlreadyProcessed(processedCommits, commit) == commit.ID \in processedCommits

NoUserStats ==
  [Additions |-> 0, Deletions |-> 0, Changes |-> 0, Total |-> 0, Projects |-> << >>]

NoProjectStats == [Additions |-> 0, Deletions |-> 0, Changes |-> 0]

AddProjectStatsWithoutChanges(p, a, d, c) ==
  [Additions |-> p.Additions + a, Deletions |-> p.Deletions + d, Changes |-> p.Changes]

\* projectStats.Additions += ...; .Deletions += ...; .Changes += ...
AddProjectStats(p, a, d, c) ==
  [Additions |-> p.Additions + a, Deletions |-> p.Deletions + d, Changes |-> p.Changes + c]

AccumulateOverwriting(stats, author, projectID, s) ==
  LET u2 == [Additions |-> s.Additions,
             Deletions |-> s.Deletions,
             Changes   |-> s.Total,
             Total     |-> s.Additions + s.Deletions,
             Projects  |-> (projectID :> AddProjectStats(NoProjectStats, s.Additions,
                                                          s.Deletions, s.Total))]
  IN  (author :> u2) @@ stats

AccumulateRecomputingTotal(stats, author, projectID, s) ==
  LET u  == IF author \in DOMAIN stats THEN stats[author] ELSE NoUserStats
      p  == IF projectID \in DOMAIN u.Projects THEN u.Projects[projectID] ELSE NoProjectStats
      u2 == [Additions |-> u.Additions + s.Additions,
             Deletions |-> u.Deletions + s.Deletions,
             Changes   |-> u.Changes + s.Additions + s.Deletions,
             Total     |-> u.Total + s.Additions + s.Deletions,
             Projects  |-> (projectID :> AddProjectStats(p, s.Additions, s.Deletions,
                                                          s.Additions + s.Deletions))
                             @@ u.Projects]
  IN  (author :> u2) @@ stats

AccumulateNetTotal(stats, author, projectID, s) ==
  LET u  == IF author \in DOMAIN stats THEN stats[author] ELSE NoUserStats
      p  == IF projectID \in DOMAIN u.Projects THEN u.Projects[projectID] ELSE NoProjectStats
      u2 == [Additions |-> u.Additions + s.Additions,
             Deletions |-> u.Deletions + s.Deletions,
             Changes   |-> u.Changes + s.Total,
             Total     |-> u.Total + s.Additions - s.Deletions,
             Projects  |-> (projectID :> AddProjectStats(p, s.Additions, s.Deletions, s.Total))
                             @@ u.Projects]
  IN  (author :> u2) @@ stats

\* the update of stats[commit.AuthorName] and of its Projects[projectID]
Accumulate(stats, author, projectID, s) ==
  LET u  == IF author \in DOMAIN stats THEN stats[author] ELSE NoUserStats
      p  == IF projectID \in DOMAIN u.Projects THEN u.Projects[projectID] ELSE NoProjectStats
      u2 == [Additions |-> u.Additions + s.Additions,
             Deletions |-> u.Deletions + s.Deletions,
             Changes   |-> u.Changes + s.Total,
             Total     |-> u.Total + s.Additions + s.Deletions,
             Projects  |-> (projectID :> AddProjectStats(p, s.Additions, s.Deletions, s.Total))
                             @@ u.Projects]
  IN  (author :> u2) @@ stats

SkipsErrorNever(work) == FALSE

\* if work.err != nil { continue }
SkipsError(work) == work.err # NoErr

\* one iteration of the loop over resultChan on the reducer's state
\* st = [stats, processedCommits, commitSignatures]; rule names the
\* statement that ended the iteration
ReducerBody(st, work, projectID) ==
  LET commit     == work.commit
      identifier == CommitIdentifier(commit, work.stats)
      marked     == [st EXCEPT !.commitSignatures = @ \cup {identifier}]
  IN  IF SkipsError(work)
        THEN [st EXCEPT !.rule = "error"]
      ELSE IF SeenSignature(st.commitSignatures, identifier)
        THEN [st EXCEPT !.rule = "signature"]
      ELSE IF HasProcessedParent(st.processedCommits, commit)
        THEN [marked EXCEPT !.rule = "merge"]
      ELSE IF AlreadyProcessed(st.processedCommits, commit)
        THEN [marked EXCEPT !.rule = "id"]
      ELSE [stats            |-> Accumulate(st.stats, commit.AuthorName, projectID, work.stats),
            processedCommits |-> st.processedCommits \cup {commit.ID},
            commitSignatures |-> marked.commitSignatures,
            rule             |-> "counted"]

(***************************************************************************)
(* State.                                                                  *)
(***************************************************************************)
VARIABLES
  cmd,               \* the subcommand that runs: "analyze" or "list"
  projectID,         \* the project of the run of GetProjectCommitStats
  pages,             \* the remote's listing pages for the date window
  faults,            \* transport faults injected so far
  lister,            \* the commit lister goroutine: pc, page and loop locals
  commitChan,        \* the buffered channel of listed commits
  commitClosed,      \* commitChan was closed
  workers,           \* the bag of the worker goroutines' local states
  resultClosed,      \* resultChan was closed
  resultCloses,      \* how many times close(resultChan) ran
  panicked,          \* the runtime panic that ended the process, or ""
  errChan,           \* the buffered channel of the fatal error
  stats,             \* author -> UserStats
  processedCommits,  \* the set of processed commit IDs
  commitSignatures,  \* the set of seen CommitIdentifiers
  ret,               \* what GetProjectCommitStats returned
  totalCommits,      \* progress counter of listed commits
  processedCount,    \* progress counter of enriched commits
  arrivals,          \* history: the works the reducer received, in order
  rules,             \* history: the rule that ended each arrival's iteration
  requested,         \* history: the page numbers the lister requested
  queued,            \* history: the commits the lister sent to commitChan
  gp,                \* GetProjects: pc, page and loop locals
  main,              \* the analyze command: pc, loop index, export error, exit status
  projectIDs,        \* the project IDs the analyze command was asked for
  projectsStats,     \* the maps of the project runs that returned no error
  targetUsers,       \* the allow-list read from TARGET_USERS
  mergedStats,       \* what MergeProjectStats returned
  exported,          \* the files ExportStatsToCSV wrote: user -> project -> row
  runs,              \* history: what each project's run returned, in order
  heap,              \* the map objects of a merge: address -> contents
  inputs,            \* the addresses of the maps passed to MergeProjectStats
  results            \* history: the addresses of the maps its calls returned

vars ==
  << cmd, projectID, pages, faults, lister, commitChan, commitClosed, workers,
     resultClosed, resultCloses, panicked, errChan, stats, processedCommits,
     commitSignatures, ret, totalCommits, processedCount, arrivals, rules,
     requested, queued, gp, main, projectIDs, projectsStats, targetUsers,
     mergedStats, exported, runs, heap, inputs, results >>

\* the state of the analyze command
mainVars ==
  << main, projectIDs, projectsStats, targetUsers, mergedStats, exported, runs,
     heap, inputs, results >>

\* the map objects of MergeProjectStats, outside the specification of its
\* effects on them
heapVars == << heap, inputs, results >>

InitHeapIdle ==
  /\ heap = << >>
  /\ inputs = << >>
  /\ results = << >>

SeqsUpTo(S, n) == UNION { [1..k -> S] : k \in 0..n }

RECURSIVE Flatten(_)
Flatten(ps) == IF ps = << >> THEN << >> ELSE Head(ps) \o Flatten(Tail(ps))

\* the remote histories of the model: MaxPages pages of at most MaxPerPage
\* commits each, at most MaxListed commits in all; a page may be empty and a
\* commit may be listed more than once
Histories ==
  { h \in [1..MaxPages -> SeqsUpTo(RemoteCommits, MaxPerPage)] :
      Len(Flatten(h)) <= MaxListed }

\* the listing page the remote returns for a page number
PageOf(ps, n) == IF n \in 1..Len(ps) THEN ps[n] ELSE << >>

NoWork == [commit |-> NoCommit, stats |-> ZeroStats, err |-> NoErr]

\* a worker blocked in "for commit := range commitChan"
RecvWorker == [pc |-> "recv", commit |-> NoCommit, call |-> NewCall(initialRetryDelay), work |-> NoWork]

\* a worker that left the loop and ran wg.Done
ExitWorker == [RecvWorker EXCEPT !.pc = "exit"]

\* a worker that sent a successful work and is about to add one to
\* processedCount
AddWorker == [RecvWorker EXCEPT !.pc = "add"]

\* a worker that added one to processedCount and is about to read it for
\* the progress message
ReadWorker == [RecvWorker EXCEPT !.pc = "read"]

Move(ws, from, to) == (ws (-) SetToBag({from})) (+) SetToBag({to})

IdleLister == [pc |-> "idle", page |-> 0, call |-> NewCall(initialRetryDelay), commits |-> << >>]

NoRet == [returned |-> FALSE, hasMap |-> FALSE, stats |-> << >>, err |-> NoErr]

\* GetProjects before it is called; remote is the number of non-empty pages
\* of the remote project list, allProjects the page numbers merged so far
IdleGP == [pc |-> "idle", page |-> 0, call |-> NewCall(initialRetryDelay),
           allProjects |-> << >>, remote |-> 0, returned |-> FALSE, hasBody |-> FALSE,
           err |-> NoErr]

\* the analyze command outside its own specification: nothing gathered
NoMain == [pc |-> "idle", i |-> 0, exit |-> "", exportErr |-> FALSE]

InitMainIdle ==
  /\ main = NoMain
  /\ projectIDs = << >>
  /\ projectsStats = << >>
  /\ targetUsers = << >>
  /\ mergedStats = << >>
  /\ exported = << >>
  /\ runs = << >>
  /\ InitHeapIdle

InitAnalyze ==
  /\ cmd = "analyze"
  /\ projectID \in ProjectIDs
  /\ pages \in Histories
  /\ lister = [pc |-> "request", page |-> 1, call |-> NewCall(initialRetryDelay), commits |-> << >>]
  /\ workers = (RecvWorker :> workerCount)
  /\ ret = NoRet
  /\ gp = IdleGP

\* the list subcommand: GetProjects is called with no page parameter, so it
\* starts at page "1"; GetProjectCommitStats does not run
InitList ==
  /\ cmd = "list"
  /\ projectID \in ProjectIDs
  /\ pages = [n \in 1..MaxPages |-> << >>]
  /\ lister = IdleLister
  /\ workers = EmptyBag
  /\ ret = NoRet
  /\ \E n \in 0..MaxProjectPages :
       gp = [IdleGP EXCEPT !.pc = "request", !.page = 1, !.remote = n]

Init ==
  /\ InitAnalyze \/ InitList
  /\ InitMainIdle
  /\ faults = 0
  /\ commitChan = << >>
  /\ commitClosed = FALSE
  /\ resultClosed = FALSE
  /\ resultCloses = 0
  /\ panicked = ""
  /\ errChan = << >>
  /\ stats = << >>
  /\ processedCommits = {}
  /\ commitSignatures = {}
  /\ totalCommits = 0
  /\ processedCount = 0
  /\ arrivals = << >>
  /\ rules = << >>
  /\ requested = << >>
  /\ queued = << >>

(***************************************************************************)
(* The commit lister goroutine.                                            *)
(***************************************************************************)
NextPageSkips(page) == page + 2

\* page++
NextPage(page) == page + 1

\* one attempt of the retry loop on the current page and, when the loop
\* ends, the statements up to the first channel send or the return
ListerRequest ==
  /\ panicked = ""
  /\ lister.pc = "request"
  /\ \E o \in Outcomes(Len(lister.call.log) + 1, {"page", "malformed"}) :
       LET call    == RetryIteration(lister.call, o)
           commits == PageOf(pages, lister.page)
       IN
       /\ IsFault(o) => faults < MaxFaults
       /\ faults' = IF IsFault(o) THEN faults + 1 ELSE faults
       /\ requested' = IF lister.call.log = << >> THEN Append(requested, lister.page)
                       ELSE requested
       /\ IF ~call.done
            THEN /\ lister' = [lister EXCEPT !.call = call]
                 /\ UNCHANGED << errChan, totalCommits >>
          ELSE IF call.err # NoErr
            THEN /\ errChan' = Append(errChan, ListingErr(lister.page, call.err))
                 /\ lister' = [lister EXCEPT !.call = call, !.pc = "close"]
                 /\ UNCHANGED totalCommits
          ELSE IF call.body.kind = "malformed"
            THEN /\ errChan' = Append(errChan, ListingErr(lister.page, DecodeErr))
                 /\ lister' = [lister EXCEPT !.call = call, !.pc = "close"]
                 /\ UNCHANGED totalCommits
          ELSE IF Len(commits) = 0
            THEN /\ lister' = [lister EXCEPT !.call = call, !.pc = "close"]
                 /\ UNCHANGED << errChan, totalCommits >>
          ELSE /\ totalCommits' = totalCommits + Len(commits)
               /\ lister' = [lister EXCEPT !.call = call, !.pc = "send", !.commits = commits]
               /\ UNCHANGED errChan
  /\ UNCHANGED << cmd, projectID, pages, commitChan, commitClosed, workers, resultClosed,
                  resultCloses, panicked, stats, processedCommits, commitSignatures, ret,
                  processedCount, arrivals, rules, queued, gp >>
  /\ UNCHANGED mainVars

\* commitChan <- commit, and page++ after the last commit of the page
ListerSend ==
  /\ panicked = ""
  /\ lister.pc = "send"
  /\ Len(commitChan) < commitChanCap
  /\ commitChan' = Append(commitChan, Head(lister.commits))
  /\ queued' = Append(queued, Head(lister.commits))
  /\ lister' = IF Len(lister.commits) > 1
                 THEN [lister EXCEPT !.commits = Tail(@)]
                 ELSE [pc |-> "request", page |-> NextPage(lister.page),
                       call |-> NewCall(initialRetryDelay), commits |-> << >>]
  /\ UNCHANGED << cmd, projectID, pages, faults, commitClosed, workers, resultClosed,
                  resultCloses, panicked, errChan, stats, processedCommits,
                  commitSignatures, ret, totalCommits, processedCount, arrivals, rules,
                  requested, gp >>
  /\ UNCHANGED mainVars

\* the deferred close(commitChan)
ListerClose ==
  /\ panicked = ""
  /\ lister.pc = "close"
  /\ commitClosed' = TRUE
  /\ lister' = [lister EXCEPT !.pc = "done"]
  /\ UNCHANGED << cmd, projectID, pages, faults, commitChan, workers, resultClosed,
                  resultCloses, panicked, errChan, stats, processedCommits,
                  commitSignatures, ret, totalCommits, processedCount, arrivals, rules,
                  requested, queued, gp >>
  /\ UNCHANGED mainVars

(***************************************************************************)
(* The worker goroutines.                                                  *)
(***************************************************************************)
\* json.Unmarshal of a commit-detail body into Commit.Stats: a body without
\* a stats object decodes to the zero CommitStats
DetailStats(commit, body) ==
  IF body.kind = "detail" THEN RemoteStats(commit.ID) ELSE ZeroStats

\* the commitWork a worker sends once its retry loop has ended
WorkOf(commit, call) ==
  IF call.err # NoErr
    THEN [commit |-> commit, stats |-> ZeroStats, err |-> call.err]
  ELSE IF call.body.kind = "malformed"
    THEN [commit |-> commit, stats |-> ZeroStats, err |-> DecodeErr]
  ELSE [commit |-> commit, stats |-> DetailStats(commit, call.body), err |-> NoErr]

\* "for commit := range commitChan": take the next commit, or leave the loop
\* and run wg.Done once the channel is closed and drained
WorkerRecv ==
  /\ panicked = ""
  /\ BagIn(RecvWorker, workers)
  /\ IF commitChan # << >>
       THEN /\ workers' = Move(workers, RecvWorker,
                               [RecvWorker EXCEPT !.pc = "request", !.commit = Head(commitChan)])
            /\ commitChan' = Tail(commitChan)
       ELSE /\ commitClosed
            /\ workers' = Move(workers, RecvWorker, ExitWorker)
            /\ UNCHANGED commitChan
  /\ UNCHANGED << cmd, projectID, pages, faults, lister, commitClosed, resultClosed,
                  resultCloses, panicked, errChan, stats, processedCommits,
                  commitSignatures, ret, totalCommits, processedCount, arrivals, rules,
                  requested, queued, gp >>
  /\ UNCHANGED mainVars

\* commit.ID[:8] panics on an ID of fewer than eight bytes
SlicePanics(commit) == IDLength(commit.ID) < 8

\* one iteration of the retry loop on the commit's detail and, when the loop
\* ends, the decoding of the body; the messages of a retry, of a failed
\* fetch and of a failed decoding print commit.ID[:8]
WorkerRequest ==
  /\ panicked = ""
  /\ \E w \in BagToSet(workers) :
       /\ w.pc = "request"
       /\ IF w.call.retry > 0 /\ SlicePanics(w.commit)
            THEN /\ panicked' = "slice bounds out of range"
                 /\ UNCHANGED << faults, workers >>
            ELSE \E o \in Outcomes(Len(w.call.log) + 1, {"detail", "nostats", "malformed"}) :
                   LET call == RetryIteration(w.call, o)
                       work == WorkOf(w.commit, call)
                   IN
                   /\ IsFault(o) => faults < MaxFaults
                   /\ faults' = IF IsFault(o) THEN faults + 1 ELSE faults
                   /\ IF call.done /\ work.err # NoErr /\ SlicePanics(w.commit)
                        THEN /\ panicked' = "slice bounds out of range"
                             /\ workers' = Move(workers, w, [w EXCEPT !.call = call])
                        ELSE /\ workers' = Move(workers, w,
                                  IF call.done
                                    THEN [w EXCEPT !.pc = "send", !.call = call, !.work = work]
                                    ELSE [w EXCEPT !.call = call])
                             /\ UNCHANGED panicked
  /\ UNCHANGED << cmd, projectID, pages, lister, commitChan, commitClosed, resultClosed,
                  resultCloses, errChan, stats, processedCommits,
                  commitSignatures, ret, totalCommits, processedCount, arrivals, rules,
                  requested, queued, gp >>
  /\ UNCHANGED mainVars

\* "resultChan <- work" meeting the reducer's receive: the reducer runs one
\* iteration of its loop on the work; a send on the closed channel panics.
\* After the send of an error the worker continues with the next commit,
\* after the send of a successful work it goes on to the progress counter.
WorkerSend ==
  /\ panicked = ""
  /\ \E w \in BagToSet(workers) :
       /\ w.pc = "send"
       /\ IF resultClosed
            THEN /\ panicked' = "send on closed channel"
                 /\ workers' = Move(workers, w, RecvWorker)
                 /\ UNCHANGED << stats, processedCommits, commitSignatures, arrivals,
                                 rules >>
            ELSE /\ ~ret.returned
                 /\ LET st == ReducerBody([stats |-> stats,
                                           processedCommits |-> processedCommits,
                                           commitSignatures |-> commitSignatures,
                                           rule |-> ""], w.work, projectID)
                    IN  /\ stats' = st.stats
                        /\ processedCommits' = st.processedCommits
                        /\ commitSignatures' = st.commitSignatures
                        /\ rules' = Append(rules, st.rule)
                 /\ arrivals' = Append(arrivals, w.work)
                 /\ workers' = Move(workers, w,
                                    IF w.work.err = NoErr THEN AddWorker ELSE RecvWorker)
                 /\ UNCHANGED panicked
  /\ UNCHANGED << cmd, projectID, pages, faults, lister, commitChan, commitClosed,
                  resultClosed, resultCloses, errChan, ret, totalCommits, processedCount,
                  requested, queued, gp >>
  /\ UNCHANGED mainVars

\* atomic.AddInt32(&processedCount, 1)
WorkerAdd ==
  /\ panicked = ""
  /\ BagIn(AddWorker, workers)
  /\ processedCount' = processedCount + 1
  /\ workers' = Move(workers, AddWorker, ReadWorker)
  /\ UNCHANGED << cmd, projectID, pages, faults, lister, commitChan, commitClosed,
                  resultClosed, resultCloses, panicked, errChan, stats, processedCommits,
                  commitSignatures, ret, totalCommits, arrivals, rules, requested,
                  queued, gp >>
  /\ UNCHANGED mainVars

\* "if processedCount%10 == 0 { fmt.Printf(...) }": the plain reads of
\* processedCount and totalCommits for the progress message, which changes
\* no state of the run; the worker continues with the next commit
WorkerProgress ==
  /\ panicked = ""
  /\ BagIn(ReadWorker, workers)
  /\ workers' = Move(workers, ReadWorker, RecvWorker)
  /\ UNCHANGED << cmd, projectID, pages, faults, lister, commitChan, commitClosed,
                  resultClosed, resultCloses, panicked, errChan, stats, processedCommits,
                  commitSignatures, ret, totalCommits, processedCount, arrivals, rules,
                  requested, queued, gp >>
  /\ UNCHANGED mainVars

(***************************************************************************)
(* The closer goroutine and the end of GetProjectCommitStats.              *)
(***************************************************************************)
WgWaitReturnsAtOnce(ws) == TRUE

\* wg.Wait() returns: every worker ran wg.Done
WgWaitReturns(ws) == CopiesIn(ExitWorker, ws) = workerCount

\* wg.Wait(); close(resultChan)
Closer ==
  /\ panicked = ""
  /\ cmd = "analyze"
  /\ resultCloses = 0
  /\ WgWaitReturns(workers)
  /\ resultClosed' = TRUE
  /\ resultCloses' = resultCloses + 1
  /\ UNCHANGED << cmd, projectID, pages, faults, lister, commitChan, commitClosed, workers,
                  panicked, errChan, stats, processedCommits, commitSignatures, ret,
                  totalCommits, processedCount, arrivals, rules, requested, queued, gp >>
  /\ UNCHANGED mainVars

FinalSelectIgnoresErr(ch, st) ==
  [returned |-> TRUE, hasMap |-> TRUE, stats |-> st, err |-> NoErr]

\* select { case err := <-errChan: return nil, err; default: }; return stats, nil
FinalSelect(ch, st) ==
  IF ch # << >>
    THEN [returned |-> TRUE, hasMap |-> FALSE, stats |-> << >>, err |-> Head(ch)]
    ELSE [returned |-> TRUE, hasMap |-> TRUE, stats |-> st, err |-> NoErr]

\* the loop over resultChan ends on the closed channel; the select and return
Return ==
  /\ panicked = ""
  /\ cmd = "analyze"
  /\ resultClosed
  /\ ~ret.returned
  /\ ret' = FinalSelect(errChan, stats)
  /\ errChan' = IF errChan # << >> THEN Tail(errChan) ELSE errChan
  /\ UNCHANGED << cmd, projectID, pages, faults, lister, commitChan, commitClosed, workers,
                  resultClosed, resultCloses, panicked, stats, processedCommits,
                  commitSignatures, totalCommits, processedCount, arrivals, rules,
                  requested, queued, gp >>
  /\ UNCHANGED mainVars

(***************************************************************************)
(* GetProjects.                                                            *)
(***************************************************************************)
\* one attempt of the retry loop on the current page of the project list
\* and, when the loop ends, the rest of the iteration of the page loop.
\* retryDelay is declared outside the page loop and keeps its value from
\* page to page.
GetProjectsRequest ==
  /\ panicked = ""
  /\ gp.pc = "request"
  /\ \E o \in Outcomes(Len(gp.call.log) + 1, {"page", "malformed"}) :
       LET call  == RetryIteration(gp.call, o)
           items == IF gp.page <= gp.remote THEN <<gp.page>> ELSE << >>
           all   == IF gp.page = 1 \/ items # << >> THEN gp.allProjects \o items
                    ELSE gp.allProjects
       IN
       /\ IsFault(o) => faults < MaxFaults
       /\ faults' = IF IsFault(o) THEN faults + 1 ELSE faults
       /\ gp' =
            IF ~call.done
              THEN [gp EXCEPT !.call = call]
            ELSE IF call.err # NoErr
              THEN [gp EXCEPT !.call = call, !.pc = "done", !.returned = TRUE,
                              !.err = ProjectsErr(gp.page, call.err)]
            ELSE IF call.body.kind = "malformed"
              THEN [gp EXCEPT !.call = call, !.pc = "done", !.returned = TRUE,
                              !.err = ProjectsErr(gp.page, DecodeErr)]
            ELSE IF items = << >>
              THEN [gp EXCEPT !.call = call, !.pc = "done", !.returned = TRUE,
                              !.hasBody = TRUE, !.allProjects = all]
            ELSE [gp EXCEPT !.call = NewCall(call.retryDelay), !.page = gp.page + 1,
                            !.allProjects = all]
  /\ UNCHANGED << cmd, projectID, pages, lister, commitChan, commitClosed, workers,
                  resultClosed, resultCloses, panicked, errChan, stats, processedCommits,
                  commitSignatures, ret, totalCommits, processedCount, arrivals, rules,
                  requested, queued >>
  /\ UNCHANGED mainVars

Next ==
  \/ ListerRequest
  \/ ListerSend
  \/ ListerClose
  \/ WorkerRecv
  \/ WorkerRequest
  \/ WorkerSend
  \/ WorkerAdd
  \/ WorkerProgress
  \/ Closer
  \/ Return
  \/ GetProjectsRequest

Spec == Init /\ [][Next]_vars

(***************************************************************************)
(* The reducer on an arbitrary result stream: every arrival order of the   *)
(* works the workers can send for the remote's commits.                    *)
(***************************************************************************)
\* the works a worker can send for a commit: its stats, the zero stats of a
\* body without stats, a decode error, or the last attempt's transport error
PossibleWorks ==
  UNION { { [commit |-> c, stats |-> RemoteStats(c.ID), err |-> NoErr],
            [commit |-> c, stats |-> ZeroStats, err |-> NoErr],
            [commit |-> c, stats |-> ZeroStats, err |-> DecodeErr],
            [commit |-> c, stats |-> ZeroStats, err |-> TransportErr(maxRetries)] }
          : c \in RemoteCommits }

InitReducer ==
  /\ InitMainIdle
  /\ cmd = "analyze"
  /\ projectID \in ProjectIDs
  /\ pages = [n \in 1..MaxPages |-> << >>]
  /\ lister = IdleLister
  /\ workers = EmptyBag
  /\ ret = NoRet
  /\ gp = IdleGP
  /\ faults = 0
  /\ commitChan = << >>
  /\ commitClosed = FALSE
  /\ resultClosed = FALSE
  /\ resultCloses = 0
  /\ panicked = ""
  /\ errChan = << >>
  /\ stats = << >>
  /\ processedCommits = {}
  /\ commitSignatures = {}
  /\ totalCommits = 0
  /\ processedCount = 0
  /\ arrivals = << >>
  /\ rules = << >>
  /\ requested = << >>
  /\ queued = << >>

\* the reducer receives a work and runs one iteration of its loop
ResultArrives ==
  /\ panicked = ""
  /\ ~resultClosed
  /\ Len(arrivals) < MaxArrivals
  /\ \E w \in PossibleWorks :
       /\ LET st == ReducerBody([stats |-> stats,
                                 processedCommits |-> processedCommits,
                                 commitSignatures |-> commitSignatures,
                                 rule |-> ""], w, projectID)
          IN  /\ stats' = st.stats
              /\ processedCommits' = st.processedCommits
              /\ commitSignatures' = st.commitSignatures
              /\ rules' = Append(rules, st.rule)
       /\ arrivals' = Append(arrivals, w)
  /\ UNCHANGED << cmd, projectID, pages, faults, lister, commitChan, commitClosed, workers,
                  resultClosed, resultCloses, panicked, errChan, ret, totalCommits,
                  processedCount, requested, queued, gp >>
  /\ UNCHANGED mainVars

\* resultChan is closed, after the lister reported a fatal error or not
ResultsEnd ==
  /\ panicked = ""
  /\ ~resultClosed
  /\ resultClosed' = TRUE
  /\ resultCloses' = resultCloses + 1
  /\ \E fatal \in BOOLEAN :
       errChan' = IF fatal THEN << ListingErr(1, TransportErr(maxRetries)) >> ELSE << >>
  /\ UNCHANGED << cmd, projectID, pages, faults, lister, commitChan, commitClosed, workers,
                  panicked, stats, processedCommits, commitSignatures, ret, totalCommits,
                  processedCount, arrivals, rules, requested, queued, gp >>
  /\ UNCHANGED mainVars

NextReducer == ResultArrives \/ ResultsEnd \/ Return

SpecReducer == InitReducer /\ [][NextReducer]_vars

(***************************************************************************)
(* Properties of the reducer.                                              *)
(***************************************************************************)
\* the arrival that a step of the reducer has just handled
IsArrival == Len(arrivals') = Len(arrivals) + 1

Arrived == arrivals'[Len(arrivals')]

Succeeded(w) == w.err = NoErr

Signature(w) == CommitIdentifier(w.commit, w.stats)

\* the sum of a field of the diff stats over the works of an author
RECURSIVE SumStat(_, _, _)
SumStat(ws, author, field) ==
  IF ws = << >> THEN 0
  ELSE (IF Head(ws).commit.AuthorName = author THEN Head(ws).stats[field] ELSE 0)
       + SumStat(Tail(ws), author, field)

\* the arrivals whose iteration reached the accumulation
CountedIndexes == { i \in 1..Len(arrivals) : rules[i] = "counted" }

\* C1: a successfully enriched commit whose signature equals that of a
\* successfully enriched commit that arrived earlier in the run leaves the
\* whole author map (totals and per-project totals) unchanged, whatever its ID.
C1_DuplicateSignatureAddsNothing ==
  [][ ( /\ IsArrival
        /\ Succeeded(Arrived)
        /\ \E i \in 1..Len(arrivals) :
             Succeeded(arrivals[i]) /\ Signature(arrivals[i]) = Signature(Arrived) )
      => stats' = stats ]_vars

\* a commit was counted and a later commit with another ID and the same
\* signature arrived
C1_Witness ==
  \E i, j \in 1..Len(arrivals) :
    /\ i < j
    /\ rules[i] = "counted"
    /\ Succeeded(arrivals[j])
    /\ Signature(arrivals[i]) = Signature(arrivals[j])
    /\ arrivals[i].commit.ID # arrivals[j].commit.ID

\* C2 (as amended): no commit ID is counted more than once; an ID whose
\* first successfully enriched arrival is dropped by neither the signature
\* rule nor the merge-parent rule is counted exactly once, however often it
\* arrives.
C2_CountedAtMostOnce ==
  /\ \A i, j \in CountedIndexes :
       arrivals[i].commit.ID = arrivals[j].commit.ID => i = j
  /\ \A i \in 1..Len(arrivals) :
       ( /\ Succeeded(arrivals[i])
         /\ \A k \in 1..(i - 1) :
              arrivals[k].commit.ID = arrivals[i].commit.ID => ~Succeeded(arrivals[k])
         /\ rules[i] \notin {"signature", "merge"} )
       => rules[i] = "counted"
  /\ processedCommits = { arrivals[i].commit.ID : i \in CountedIndexes }

\* a counted commit ID arrived again, successfully enriched with other stats
C2_Witness ==
  \E i, j \in 1..Len(arrivals) :
    /\ i < j
    /\ rules[i] = "counted"
    /\ rules[j] = "id"
    /\ arrivals[i].commit.ID = arrivals[j].commit.ID

\* C2 as stated: once the run has returned, every commit ID that reached the
\* reducer successfully enriched two or more times was counted exactly once.
C2_Original ==
  ret.returned =>
    \A i, j \in 1..Len(arrivals) :
      ( /\ i < j
        /\ Succeeded(arrivals[i]) /\ Succeeded(arrivals[j])
        /\ arrivals[i].commit.ID = arrivals[j].commit.ID )
      => Cardinality({ k \in CountedIndexes :
                         arrivals[k].commit.ID = arrivals[i].commit.ID }) = 1

\* the change of the author map by one counted commit: the entry of the
\* author alone, by the commit's diff stats
Contributes(old, new, author, project, s) ==
  LET u == IF author \in DOMAIN old THEN old[author] ELSE NoUserStats
      p == IF project \in DOMAIN u.Projects THEN u.Projects[project] ELSE NoProjectStats
  IN  /\ DOMAIN new = DOMAIN old \cup {author}
      /\ \A a \in DOMAIN old \ {author} : new[a] = old[a]
      /\ new[author].Additions = u.Additions + s.Additions
      /\ new[author].Deletions = u.Deletions + s.Deletions
      /\ new[author].Changes = u.Changes + s.Total
      /\ new[author].Total = u.Total + s.Additions + s.Deletions
      /\ DOMAIN new[author].Projects = DOMAIN u.Projects \cup {project}
      /\ new[author].Projects[project].Additions = p.Additions + s.Additions
      /\ new[author].Projects[project].Deletions = p.Deletions + s.Deletions
      /\ new[author].Projects[project].Changes = p.Changes + s.Total

IsMerge(w) == Len(w.commit.ParentIDs) > 1

ParentProcessed(w) ==
  \E i \in 1..Len(w.commit.ParentIDs) : w.commit.ParentIDs[i] \in processedCommits

\* C3 (as amended): a successfully enriched merge commit one of whose
\* parents is processed when it arrives changes nothing; one none of whose
\* parents is processed, whose signature no successfully enriched earlier
\* arrival had and whose own ID is not processed contributes its full diff
\* stats to its author.
C3_MergeCommit ==
  [][ ( IsArrival /\ Succeeded(Arrived) /\ IsMerge(Arrived) )
      => /\ ParentProcessed(Arrived) => stats' = stats
         /\ ( /\ ~ParentProcessed(Arrived)
              /\ Signature(Arrived) \notin { Signature(arrivals[i]) :
                     i \in { k \in 1..Len(arrivals) : Succeeded(arrivals[k]) } }
              /\ Arrived.commit.ID \notin processedCommits )
            => Contributes(stats, stats', Arrived.commit.AuthorName, projectID,
                           Arrived.stats) ]_vars

\* a merge commit was counted in full, and a merge commit was dropped for a
\* processed parent
C3_Witness ==
  \E i, j \in 1..Len(arrivals) :
    /\ IsMerge(arrivals[i]) /\ rules[i] = "counted" /\ arrivals[i].stats # ZeroStats
    /\ IsMerge(arrivals[j]) /\ rules[j] = "merge"

\* C3 as stated: a merge commit none of whose parents is processed always
\* contributes its full diff stats.
C3_Original ==
  [][ ( IsArrival /\ Succeeded(Arrived) /\ IsMerge(Arrived) )
      => /\ ParentProcessed(Arrived) => stats' = stats
         /\ ~ParentProcessed(Arrived)
            => Contributes(stats, stats', Arrived.commit.AuthorName, projectID,
                           Arrived.stats) ]_vars

\* the counted works, in arrival order
CountedWorks ==
  LET f[n \in 0..Len(arrivals)] ==
        IF n = 0 THEN << >>
        ELSE IF rules[n] = "counted" THEN Append(f[n - 1], arrivals[n]) ELSE f[n - 1]
  IN  f[Len(arrivals)]

\* the author map that is the sum of the deltas of the given works
IsSumOf(map, ws, project) ==
  /\ DOMAIN map = { ws[i].commit.AuthorName : i \in 1..Len(ws) }
  /\ \A a \in DOMAIN map :
       /\ map[a].Additions = SumStat(ws, a, "Additions")
       /\ map[a].Deletions = SumStat(ws, a, "Deletions")
       /\ map[a].Changes = SumStat(ws, a, "Total")
       /\ map[a].Total = SumStat(ws, a, "Additions") + SumStat(ws, a, "Deletions")
       /\ DOMAIN map[a].Projects = {project}
       /\ map[a].Projects[project] =
            [Additions |-> SumStat(ws, a, "Additions"),
             Deletions |-> SumStat(ws, a, "Deletions"),
             Changes   |-> SumStat(ws, a, "Total")]

\* C5: every counted commit changes its own author's entry alone, by
\* additions += diff.additions, deletions += diff.deletions, changes +=
\* diff.total as reported, total += diff.additions + diff.deletions, and the
\* author's entry of the run's project by the first three; a commit that is
\* not counted changes nothing; so the map is always, and when it is
\* returned, the sum of the deltas of the counted commits.
C5_CountedDeltas ==
  /\ [](IsSumOf(stats, CountedWorks, projectID))
  /\ [](ret.hasMap => ret.stats = stats)
  /\ [][ IsArrival =>
           IF rules'[Len(rules')] = "counted"
             THEN Contributes(stats, stats', Arrived.commit.AuthorName, projectID,
                              Arrived.stats)
             ELSE stats' = stats ]_vars

\* two authors were counted, one of them twice, and the map was returned
\* with a commit whose reported total is not additions + deletions
C5_Witness ==
  /\ ret.hasMap
  /\ Cardinality(DOMAIN stats) = 2
  /\ Cardinality(CountedIndexes) = 3
  /\ \E i \in CountedIndexes :
       arrivals[i].stats.Total # arrivals[i].stats.Additions + arrivals[i].stats.Deletions

\* the reducer's state after the loop over resultChan has handled the works
\* of a sequence in order
RECURSIVE ReduceAll(_, _)
ReduceAll(ws, project) ==
  IF ws = << >>
    THEN [stats |-> << >>, processedCommits |-> {}, commitSignatures |-> {}, rule |-> ""]
    ELSE ReducerBody(ReduceAll(SubSeq(ws, 1, Len(ws) - 1), project), ws[Len(ws)], project)

\* the rearrangements of the arrivals: p[k] is the arrival that comes k-th
Rearrangements ==
  { p \in [1..Len(arrivals) -> 1..Len(arrivals)] :
      \A a, b \in 1..Len(arrivals) : p[a] = p[b] => a = b }

Rearranged(p) == [k \in 1..Len(arrivals) |-> arrivals[p[k]]]

\* the rearrangement keeps each merge commit on the same side of each
\* arrival of one of its parents
KeepsMergeParentOrder(p) ==
  \A a, b \in 1..Len(arrivals) :
    ( /\ IsMerge(arrivals[p[a]])
      /\ \E i \in 1..Len(arrivals[p[a]].commit.ParentIDs) :
           arrivals[p[a]].commit.ParentIDs[i] = arrivals[p[b]].commit.ID )
    => (a < b <=> p[a] < p[b])

\* among the successfully enriched arrivals, equal IDs carry equal
\* signatures and equal signatures belong to equal IDs
SignaturesMatchIDs ==
  \A i, j \in 1..Len(arrivals) :
    (Succeeded(arrivals[i]) /\ Succeeded(arrivals[j]))
    => ( arrivals[i].commit.ID = arrivals[j].commit.ID
           <=> Signature(arrivals[i]) = Signature(arrivals[j]) )

\* C4 (as amended): when, among the successfully enriched commits, equal
\* IDs carry equal signatures and equal signatures belong to equal IDs, any
\* two arrival orders that agree on the relative order of each merge commit
\* and each of its parents produce the same author map.
C4_OrderInsensitive ==
  SignaturesMatchIDs =>
    \A p \in Rearrangements :
      KeepsMergeParentOrder(p) => ReduceAll(Rearranged(p), projectID).stats = stats

\* three commits that satisfy the condition, among them a counted merge
\* commit and a parent of it that arrived later, and a rearrangement that
\* keeps the merge commit before its parent
C4_Witness ==
  /\ SignaturesMatchIDs
  /\ Cardinality(CountedIndexes) = 3
  /\ \E i, j \in CountedIndexes :
       /\ i < j
       /\ IsMerge(arrivals[i])
       /\ arrivals[j].commit.ID = arrivals[i].commit.ParentIDs[2]
  /\ \E p \in Rearrangements :
       KeepsMergeParentOrder(p) /\ Rearranged(p) # arrivals

\* among the successfully enriched arrivals, equal IDs carry equal signatures
SameIDSameSignature ==
  \A i, j \in 1..Len(arrivals) :
    ( /\ Succeeded(arrivals[i]) /\ Succeeded(arrivals[j])
      /\ arrivals[i].commit.ID = arrivals[j].commit.ID )
    => Signature(arrivals[i]) = Signature(arrivals[j])

\* C4 as stated, on the multisets in which every arrival of a commit ID
\* carries the same data: any two arrival orders that agree on the relative
\* order of each merge commit and each of its parents produce the same
\* author map.
C4_Original ==
  SameIDSameSignature =>
    \A p \in Rearrangements :
      KeepsMergeParentOrder(p) => ReduceAll(Rearranged(p), projectID).stats = stats

(***************************************************************************)
(* Properties of the pipeline.                                             *)
(***************************************************************************)
\* the lister has ended its run on a page whose retry loop failed on every
\* attempt or whose body could not be decoded
ListerFatal ==
  /\ lister.pc \in {"close", "done"}
  /\ lister.call.err # NoErr \/ lister.call.body.kind = "malformed"

\* the fatal error the lister reported
ReportedErr ==
  ListingErr(lister.page, IF lister.call.err # NoErr THEN lister.call.err ELSE DecodeErr)

\* C6: once the lister has reported a fatal listing error, whatever was
\* queued and counted before, GetProjectCommitStats returns that error and
\* no map; it never returns a map with a nil error then.
C6_FatalListingErrorReturned ==
  /\ ListerFatal => (errChan = << ReportedErr >> \/ ret.returned)
  /\ (ret.returned /\ ListerFatal)
       => /\ ~ret.hasMap
          /\ ret.stats = << >>
          /\ ret.err = ReportedErr
  /\ ret.returned => lister.pc = "done"

\* the second page failed fatally after a commit of the first page was
\* counted, and the run returned
C6_Witness ==
  /\ ret.returned
  /\ ListerFatal
  /\ lister.page = 2
  /\ stats # << >>
  /\ ret.err.kind = "listing-transport"

\* C7: for every listed commit, whatever its ID, a detail fetch that fails
\* on all attempts or whose body cannot be decoded yields an error result
\* that the reducer drops without changing its state; the run is not
\* aborted, the commit is not fetched again, and when the lister reported no
\* fatal error GetProjectCommitStats returns the map with a nil error.
C7_FetchErrorIsDropped ==
  /\ [](panicked = "")
  /\ [](Len(arrivals) <= Len(queued))
  /\ []((ret.returned /\ ~ListerFatal) => (ret.hasMap /\ ret.err = NoErr /\ ret.stats = stats))
  /\ [][ (IsArrival /\ ~Succeeded(Arrived))
         => UNCHANGED << stats, processedCommits, commitSignatures >> ]_vars

\* the locals of a retry loop are those of a loop that makes at most
\* maxRetries attempts and none after a success; once ended, it holds the
\* body of its first success, or after maxRetries failures the error of the
\* last attempt
CallIsBounded(call) ==
  /\ Len(call.log) <= maxRetries
  /\ \A i \in 1..(Len(call.log) - 1) : call.log[i] = "fail"
  /\ call.done =>
       /\ call.log # << >>
       /\ IF call.log[Len(call.log)] = "ok"
            THEN call.err = NoErr /\ call.body.attempt = Len(call.log)
            ELSE /\ Len(call.log) = maxRetries
                 /\ call.err = TransportErr(maxRetries)
                 /\ call.body = NoBody

\* C8: every retry loop (listing page, commit detail, project list page)
\* makes at most 5 attempts and none after a success, continues with the
\* body of its first success, and after 5 failed attempts yields the error
\* of the fifth attempt.
C8_RetryLoop ==
  /\ CallIsBounded(lister.call)
  /\ CallIsBounded(gp.call)
  /\ \A w \in BagToSet(workers) :
       /\ CallIsBounded(w.call)
       /\ w.pc = "send" =>
            /\ w.call.done
            /\ w.call.err # NoErr => w.work.err = w.call.err
            /\ w.call.err = NoErr =>
                 w.work.err = (IF w.call.body.kind = "malformed" THEN DecodeErr ELSE NoErr)
  /\ (lister.pc \in {"close", "done"} /\ lister.call.err # NoErr /\ ~ret.returned)
       => errChan = << ListingErr(lister.page, TransportErr(maxRetries)) >>
  /\ (gp.returned /\ gp.call.err # NoErr)
       => gp.err = ProjectsErr(gp.page, TransportErr(maxRetries))
  /\ gp.returned => gp.call.done

\* a worker whose five attempts on a commit's detail all failed is about to
\* send the error of the fifth
C8_Witness ==
  \E w \in BagToSet(workers) :
    /\ w.pc = "send"
    /\ w.call.log = <<"fail", "fail", "fail", "fail", "fail">>
    /\ w.work.err = TransportErr(maxRetries)

\* the page before the first empty page of the remote's listing
LastListedPage ==
  LET empty == { n \in 1..Len(pages) : pages[n] = << >> }
  IN  IF empty = {} THEN Len(pages)
      ELSE (CHOOSE n \in empty : \A k \in empty : n <= k) - 1

\* the commits of the first n pages, in listing order
ListedUpTo(n) == Flatten(SubSeq(pages, 1, n))

\* C9: the lister requests pages 1, 2, 3, ... in consecutive order, queues
\* the commits of every non-empty page in listing order before it requests
\* the next page, stops at the first empty page without reporting an error,
\* and requests no page after an empty page or a fatally failed page.
C9_ListerPages ==
  /\ requested = [i \in 1..Len(requested) |-> i]
  /\ Len(requested) <= LastListedPage + 1
  /\ Len(queued) <= Len(ListedUpTo(LastListedPage))
  /\ queued = SubSeq(ListedUpTo(LastListedPage), 1, Len(queued))
  /\ requested # << >> => Len(queued) >= Len(ListedUpTo(Len(requested) - 1))
  /\ lister.pc \in {"close", "done"} =>
       /\ Len(requested) = lister.page
       /\ IF ListerFatal
            THEN queued = ListedUpTo(lister.page - 1)
            ELSE /\ lister.page = LastListedPage + 1
                 /\ queued = ListedUpTo(LastListedPage)
                 /\ errChan = << >>
                 /\ ret.err = NoErr

\* the lister queued the commits of two pages and stopped at the empty
\* third page
C9_Witness ==
  /\ lister.pc = "done"
  /\ ~ListerFatal
  /\ requested = <<1, 2, 3>>
  /\ Len(queued) = 2

\* C10: resultChan is closed at most once, and only after the lister closed
\* commitChan and every worker left its loop with nothing left to send; no
\* worker sends on the closed channel; the reducer's loop ends only after
\* the close, when it has received one result for every queued commit.
C10_ResultChanClosedOnce ==
  /\ resultCloses <= 1
  /\ resultClosed <=> resultCloses = 1
  /\ resultClosed =>
       /\ commitClosed
       /\ commitChan = << >>
       /\ CopiesIn(ExitWorker, workers) = workerCount
       /\ Len(arrivals) = Len(queued)
  /\ panicked # "send on closed channel"
  /\ ret.returned => resultClosed

\* the run returned after the one close, with both queued commits received
C10_Witness ==
  /\ ret.returned
  /\ resultCloses = 1
  /\ Len(arrivals) = 2
  /\ Len(queued) = 2


\* a goroutine of the pipeline can take a step
PipelineCanStep ==
  \/ ENABLED ListerRequest
  \/ ENABLED ListerSend
  \/ ENABLED ListerClose
  \/ ENABLED WorkerRecv
  \/ ENABLED WorkerRequest
  \/ ENABLED WorkerSend
  \/ ENABLED WorkerAdd
  \/ ENABLED WorkerProgress
  \/ ENABLED Closer
  \/ ENABLED Return

\* C11: under fair scheduling GetProjectCommitStats eventually returns: in
\* every reachable state of lister, workers, closer goroutine and reducer
\* either the call has returned or one of them can take a step, and no retry
\* loop has made more than maxRetries attempts.
C11_EventuallyReturns ==
  /\ cmd = "analyze" => (ret.returned \/ PipelineCanStep)
  /\ Len(lister.call.log) <= maxRetries
  /\ \A w \in BagToSet(workers) : Len(w.call.log) <= maxRetries

\* the results of a run without transport failures in which the details
\* arrive at the reducer in the order the commits were listed
ListedWorks ==
  LET listed == ListedUpTo(LastListedPage)
  IN  [i \in 1..Len(listed) |->
         [commit |-> listed[i], stats |-> RemoteStats(listed[i].ID), err |-> NoErr]]

\* C12: two runs over the same remote history without transport failures
\* return equal author maps for every scheduling of the workers: the map of
\* every such run is the map of the run whose results arrive in listing order.
C12_SameMapEveryRun ==
  (ret.hasMap /\ faults = 0) => ret.stats = ReduceAll(ListedWorks, projectID).stats

(***************************************************************************)
(* MergeProjectStats.                                                      *)
(***************************************************************************)
\* targetUsersMap: the set of the allow-list's names
TargetUsersMap(users) == { users[i] : i \in 1..Len(users) }

IsSkippedAlsoWhenEmpty(targetUsersMap, author) == author \notin targetUsersMap

\* if len(targetUsersMap) > 0 && !targetUsersMap[author] { continue }
IsSkipped(targetUsersMap, author) == targetUsersMap # {} /\ author \notin targetUsersMap

MergeProjectsOverwriting(into, from) ==
  [p \in DOMAIN into \cup DOMAIN from |->
     IF p \in DOMAIN from
       THEN AddProjectStats(NoProjectStats, from[p].Additions, from[p].Deletions,
                            from[p].Changes)
       ELSE into[p]]

\* the loop over data.Projects: each entry is added to the merged entry of
\* its project ID, created zero when absent
MergeProjects(into, from) ==
  [p \in DOMAIN into \cup DOMAIN from |->
     IF p \in DOMAIN from
       THEN AddProjectStats(IF p \in DOMAIN into THEN into[p] ELSE NoProjectStats,
                            from[p].Additions, from[p].Deletions, from[p].Changes)
       ELSE into[p]]

MergeUserOverwriting(userStats, data) ==
  [Additions |-> data.Additions,
   Deletions |-> data.Deletions,
   Changes   |-> data.Changes,
   Total     |-> data.Total,
   Projects  |-> MergeProjects(userStats.Projects, data.Projects)]

\* the body of the loop over one map's authors for an author that is kept
MergeUser(userStats, data) ==
  [Additions |-> userStats.Additions + data.Additions,
   Deletions |-> userStats.Deletions + data.Deletions,
   Changes   |-> userStats.Changes + data.Changes,
   Total     |-> userStats.Total + data.Total,
   Projects  |-> MergeProjects(userStats.Projects, data.Projects)]

\* one iteration of the loop over projectsStats: the authors of the map
\* are distinct keys, so the order of the inner loop does not matter
MergeOne(merged, projectStats, targetUsersMap) ==
  LET kept == { a \in DOMAIN projectStats : ~IsSkipped(targetUsersMap, a) }
  IN  [a \in DOMAIN merged \cup kept |->
         IF a \in kept
           THEN MergeUser(IF a \in DOMAIN merged THEN merged[a] ELSE NoUserStats,
                          projectStats[a])
           ELSE merged[a]]

RECURSIVE MergeProjectStats(_, _)
MergeProjectStats(maps, users) ==
  IF maps = << >> THEN << >>
  ELSE MergeOne(MergeProjectStats(SubSeq(maps, 1, Len(maps) - 1), users),
                maps[Len(maps)], TargetUsersMap(users))

(***************************************************************************)
(* The analyze command: one run of GetProjectCommitStats per project, the  *)
(* merge and the export.                                                   *)
(***************************************************************************)
RequestedIDs == {"p1", "p2"}

\* the values of TARGET_USERS after the split at commas
TargetUserLists == { << >>, <<"alice">>, <<"carol">>, <<"bob", "alice">> }

\* the maps the reducer of a project's run can hold when resultChan closes
RunMaps ==
  [pid \in RequestedIDs |->
     { ReduceAll(ws, pid).stats : ws \in SeqsUpTo(PossibleWorks, MaxRunArrivals) }]

\* the fatal errors the lister of a run can report
RunErrs ==
  { ListingErr(n, e) : n \in 1..MaxPages, e \in {TransportErr(maxRetries), DecodeErr} }

\* what a call of GetProjectCommitStats can return: the final select on the
\* reducer's map and on errChan
RunResults(pid) ==
  { FinalSelect(<< >>, s) : s \in RunMaps[pid] }
    \cup { FinalSelect(<< e >>, s) : e \in RunErrs, s \in RunMaps[pid] }

\* the pipeline of GetProjectCommitStats at rest
InitPipelineIdle ==
  /\ cmd = "analyze"
  /\ projectID = ""
  /\ pages = [n \in 1..MaxPages |-> << >>]
  /\ lister = IdleLister
  /\ workers = EmptyBag
  /\ ret = NoRet
  /\ gp = IdleGP
  /\ faults = 0
  /\ commitChan = << >>
  /\ commitClosed = FALSE
  /\ resultClosed = FALSE
  /\ resultCloses = 0
  /\ panicked = ""
  /\ errChan = << >>
  /\ stats = << >>
  /\ processedCommits = {}
  /\ commitSignatures = {}
  /\ totalCommits = 0
  /\ processedCount = 0
  /\ arrivals = << >>
  /\ rules = << >>
  /\ requested = << >>
  /\ queued = << >>

pipelineVars ==
  << cmd, pages, faults, lister, commitChan, commitClosed, workers, resultClosed,
     resultCloses, errChan, stats, processedCommits, commitSignatures, totalCommits,
     processedCount, arrivals, rules, requested, queued, gp >>

\* strings.Split(projects, ",") holds at least one ID
InitAnalyzeCmd ==
  /\ InitPipelineIdle
  /\ main = [NoMain EXCEPT !.pc = "loop", !.i = 1]
  /\ projectIDs \in SeqsUpTo(RequestedIDs, MaxProjects) \ { << >> }
  /\ projectsStats = << >>
  /\ targetUsers = << >>
  /\ mergedStats = << >>
  /\ exported = << >>
  /\ runs = << >>
  /\ InitHeapIdle

AppendsAlways(maps, r) == Append(maps, r.stats)

\* if err != nil { continue }; projectsStats = append(projectsStats, stats)
AppendsOnSuccess(maps, r) == IF r.err # NoErr THEN maps ELSE Append(maps, r.stats)

\* one iteration of the loop over projectIDs: the run of the project either
\* returns or ends the process in a panic of a worker
AnalyzeProject ==
  /\ panicked = ""
  /\ main.pc = "loop"
  /\ projectID' = projectIDs[main.i]
  /\ \/ /\ panicked' = "slice bounds out of range"
        /\ UNCHANGED << ret, runs, projectsStats, main >>
     \/ \E r \in RunResults(projectIDs[main.i]) :
          /\ ret' = r
          /\ runs' = Append(runs, [projectID |-> projectIDs[main.i], ret |-> r])
          /\ projectsStats' = AppendsOnSuccess(projectsStats, r)
          /\ main' = IF main.i < Len(projectIDs) THEN [main EXCEPT !.i = @ + 1]
                     ELSE [main EXCEPT !.i = @ + 1, !.pc = "merge"]
          /\ UNCHANGED panicked
  /\ UNCHANGED << projectIDs, targetUsers, mergedStats, exported >>
  /\ UNCHANGED heapVars
  /\ UNCHANGED pipelineVars

\* the allow-list is read from TARGET_USERS and the maps are merged
Merge ==
  /\ panicked = ""
  /\ main.pc = "merge"
  /\ \E users \in TargetUserLists :
       /\ targetUsers' = users
       /\ mergedStats' = MergeProjectStats(projectsStats, users)
  /\ main' = [main EXCEPT !.pc = "export"]
  /\ UNCHANGED << projectID, ret, panicked, projectIDs, projectsStats, exported, runs >>
  /\ UNCHANGED heapVars
  /\ UNCHANGED pipelineVars

\* the files ExportStatsToCSV writes: one per user, one row per project of
\* the user with its additions, deletions, changes and additions + deletions
ExportStatsToCSV(merged) ==
  [user \in DOMAIN merged |->
     [p \in DOMAIN merged[user].Projects |->
        [Additions |-> merged[user].Projects[p].Additions,
         Deletions |-> merged[user].Projects[p].Deletions,
         Changes   |-> merged[user].Projects[p].Changes,
         Total     |-> merged[user].Projects[p].Additions
                         + merged[user].Projects[p].Deletions]]]

\* os.Exit(1) when the export returned an error; else the command completes
ExitStatus(err) == IF err THEN "exit1" ELSE "ok"

\* the export: it writes every user's file, or fails on the output directory
\* or on a file after it wrote the files of some users
Export ==
  /\ panicked = ""
  /\ main.pc = "export"
  /\ \E err \in BOOLEAN :
       /\ IF err
            THEN \E written \in SUBSET DOMAIN mergedStats :
                   exported' = [user \in written |-> ExportStatsToCSV(mergedStats)[user]]
            ELSE exported' = ExportStatsToCSV(mergedStats)
       /\ main' = [main EXCEPT !.pc = "done", !.exit = ExitStatus(err), !.exportErr = err]
  /\ UNCHANGED << projectID, ret, panicked, projectIDs, projectsStats, targetUsers,
                  mergedStats, runs >>
  /\ UNCHANGED heapVars
  /\ UNCHANGED pipelineVars

NextAnalyze == AnalyzeProject \/ Merge \/ Export

SpecAnalyze == InitAnalyzeCmd /\ [][NextAnalyze]_vars

(***************************************************************************)
(* MergeProjectStats on arbitrary lists of per-project maps.               *)
(***************************************************************************)
\* the maps a run of either project can return
StatsMaps == UNION { RunMaps[pid] : pid \in RequestedIDs }

InitMerge ==
  /\ InitPipelineIdle
  /\ main = [NoMain EXCEPT !.pc = "merge"]
  /\ projectIDs = << >>
  /\ projectsStats \in SeqsUpTo(StatsMaps, MaxMaps)
  /\ targetUsers = << >>
  /\ mergedStats = << >>
  /\ exported = << >>
  /\ runs = << >>
  /\ InitHeapIdle

NextMerge == Merge

SpecMerge == InitMerge /\ [][NextMerge]_vars

(***************************************************************************)
(* Properties of MergeProjectStats.                                        *)
(***************************************************************************)
\* MergeProjectStats has returned
Merged == main.pc \in {"export", "done"}

\* the maps of a list at the given indexes, in the list's order
SubList(maps, keep) ==
  LET f[n \in 0..Len(maps)] ==
        IF n = 0 THEN << >>
        ELSE IF n \in keep THEN Append(f[n - 1], maps[n]) ELSE f[n - 1]
  IN  f[Len(maps)]

\* the orders of a list of n maps: p[k] is the index of the map put k-th
Orders == [n \in 0..MaxMaps |->
             { p \in [1..n -> 1..n] : \A a, b \in 1..n : p[a] = p[b] => a = b }]

\* the splits of a list of n maps into consecutive sub-lists: g[i] is the
\* number of the sub-list that holds the i-th map
Splits ==
  [n \in 0..MaxMaps |->
     { g \in [1..n -> 1..n] :
         /\ n > 0 => g[1] = 1
         /\ \A i \in 1..(n - 1) : g[i + 1] \in {g[i], g[i] + 1} }]

\* C13: MergeProjectStats returns the same map for every permutation of the
\* list with the same allow-list, and for every split of the list into
\* sub-lists merging the merged sub-lists returns that map too.
C13_MergeOrderAndSplit ==
  Merged =>
    LET n == Len(projectsStats)
    IN  /\ \A p \in Orders[n] :
             MergeProjectStats([k \in 1..n |-> projectsStats[p[k]]], targetUsers)
               = mergedStats
        /\ \A g \in Splits[n] :
             MergeProjectStats(
               [k \in 1..(IF n = 0 THEN 0 ELSE g[n]) |->
                  MergeProjectStats(SubList(projectsStats, { i \in 1..n : g[i] = k }),
                                    targetUsers)],
               targetUsers) = mergedStats

\* three different maps were merged, an author of two of them was kept and
\* another author was excluded by the allow-list
C13_Witness ==
  /\ Merged
  /\ Len(projectsStats) = 3
  /\ Cardinality({ projectsStats[i] : i \in 1..3 }) = 3
  /\ targetUsers = <<"alice">>
  /\ "alice" \in DOMAIN projectsStats[1] \cap DOMAIN projectsStats[3]
  /\ "bob" \in DOMAIN projectsStats[2]
  /\ mergedStats # << >>
  /\ mergedStats["alice"].Additions = 2

\* the authors that occur in some map of a list
AuthorsOf(maps) == UNION { DOMAIN maps[i] : i \in 1..Len(maps) }

\* a list of maps without the entries of the authors outside a set
WithoutOthers(maps, authors) ==
  [i \in 1..Len(maps) |-> [a \in DOMAIN maps[i] \cap authors |-> maps[i][a]]]

\* C14: with a non-empty allow-list the authors of the merged map are
\* exactly the input authors that are in the allow-list, and the entries of
\* the excluded authors change no total: the merge of the inputs without them,
\* under the allow-list or under none, is the same map; with an empty
\* allow-list the authors of the merged map are exactly the input authors.
C14_AllowList ==
  Merged =>
    IF targetUsers # << >>
      THEN /\ DOMAIN mergedStats = AuthorsOf(projectsStats) \cap TargetUsersMap(targetUsers)
           /\ MergeProjectStats(WithoutOthers(projectsStats, TargetUsersMap(targetUsers)),
                                targetUsers) = mergedStats
           /\ MergeProjectStats(WithoutOthers(projectsStats, TargetUsersMap(targetUsers)),
                                << >>) = mergedStats
      ELSE DOMAIN mergedStats = AuthorsOf(projectsStats)

\* the allow-list names alice alone, the maps hold alice and bob, bob with
\* deletions, and the merged map holds alice alone
C14_Witness ==
  /\ Merged
  /\ targetUsers = <<"alice">>
  /\ AuthorsOf(projectsStats) = {"alice", "bob"}
  /\ DOMAIN mergedStats = {"alice"}
  /\ \E i \in 1..Len(projectsStats) :
       "bob" \in DOMAIN projectsStats[i] /\ projectsStats[i]["bob"].Deletions > 0

\* the sum of a top-level field of an author over the maps that hold the
\* author
RECURSIVE SumField(_, _, _)
SumField(maps, author, field) ==
  IF maps = << >> THEN 0
  ELSE (IF author \in DOMAIN Head(maps) THEN Head(maps)[author][field] ELSE 0)
       + SumField(Tail(maps), author, field)

\* the project IDs of an author's entries over the maps
ProjectsOf(maps, author) ==
  UNION { DOMAIN maps[i][author].Projects :
            i \in { k \in 1..Len(maps) : author \in DOMAIN maps[k] } }

\* the sum of a field of an author's entry of a project over the maps that
\* hold such an entry
RECURSIVE SumProjectField(_, _, _, _)
SumProjectField(maps, author, project, field) ==
  IF maps = << >> THEN 0
  ELSE (IF /\ author \in DOMAIN Head(maps)
           /\ project \in DOMAIN Head(maps)[author].Projects
          THEN Head(maps)[author].Projects[project][field] ELSE 0)
       + SumProjectField(Tail(maps), author, project, field)

\* C15: for every author MergeProjectStats keeps, each of additions,
\* deletions, changes and total of the merged entry is the sum of that field
\* over the input maps that hold the author; the merged entry has a project
\* entry exactly for the project IDs the author has in some input, and each
\* is the field-wise sum of the author's entries for that project ID.
C15_MergedSums ==
  Merged =>
    \A a \in DOMAIN mergedStats :
      /\ \A field \in {"Additions", "Deletions", "Changes", "Total"} :
           mergedStats[a][field] = SumField(projectsStats, a, field)
      /\ DOMAIN mergedStats[a].Projects = ProjectsOf(projectsStats, a)
      /\ \A p \in DOMAIN mergedStats[a].Projects :
           /\ DOMAIN mergedStats[a].Projects[p] = {"Additions", "Deletions", "Changes"}
           /\ \A field \in {"Additions", "Deletions", "Changes"} :
                mergedStats[a].Projects[p][field]
                  = SumProjectField(projectsStats, a, p, field)

\* alice was merged from three maps, two of one project and one of another,
\* into an entry with two projects whose changes differ from its total
C15_Witness ==
  /\ Merged
  /\ Len(projectsStats) = 3
  /\ "alice" \in DOMAIN mergedStats
  /\ DOMAIN mergedStats["alice"].Projects = {"p1", "p2"}
  /\ mergedStats["alice"].Projects["p1"].Additions = 2
  /\ mergedStats["alice"].Additions = 3
  /\ mergedStats["alice"].Changes # mergedStats["alice"].Total

(***************************************************************************)
(* Properties of the analyze command.                                      *)
(***************************************************************************)
\* the maps of the runs that returned no error, in the order of the runs
SucceededMaps ==
  LET f[n \in 0..Len(runs)] ==
        IF n = 0 THEN << >>
        ELSE IF runs[n].ret.err = NoErr THEN Append(f[n - 1], runs[n].ret.stats)
        ELSE f[n - 1]
  IN  f[Len(runs)]

\* a run of a project has just returned
IsRun == Len(runs') = Len(runs) + 1

\* C16: the analyze command runs the projects one after another in the
\* requested order; a run that returns an error adds no map to the list and
\* does not stop the loop, which goes on to the next project; the merge
\* starts only when every project was run, and its result is the merge of
\* exactly the maps of the runs that returned no error.
C16_FailedProjectSkipped ==
  /\ [](/\ Len(runs) <= Len(projectIDs)
        /\ \A k \in 1..Len(runs) : runs[k].projectID = projectIDs[k]
        /\ projectsStats = SucceededMaps
        /\ main.pc = "loop" => main.i = Len(runs) + 1
        /\ Merged => /\ Len(runs) = Len(projectIDs)
                     /\ mergedStats = MergeProjectStats(SucceededMaps, targetUsers))
  /\ [][ (IsRun /\ ret'.err # NoErr)
         => /\ projectsStats' = projectsStats
            /\ main'.i = main.i + 1
            /\ main'.pc = (IF main.i < Len(projectIDs) THEN "loop" ELSE "merge") ]_vars

\* the first of two projects returned a listing error, the second a map
\* with an author, and the merged map is that of the second alone
C16_Witness ==
  /\ Merged
  /\ Len(runs) = 2
  /\ runs[1].ret.err # NoErr
  /\ runs[2].ret.err = NoErr
  /\ runs[2].ret.stats # << >>
  /\ Len(projectsStats) = 1
  /\ targetUsers = << >>
  /\ mergedStats = runs[2].ret.stats

\* C17: once the analyze command has ended without an error of the export,
\* it has finished successfully and exported the merged data if at least one
\* project run returned no error, and it has not finished successfully if
\* none did.
C17_SucceedsIffARunSucceeded ==
  (main.pc = "done" /\ ~main.exportErr) =>
    IF \E k \in 1..Len(runs) : runs[k].ret.err = NoErr
      THEN /\ main.exit = "ok"
           /\ exported = ExportStatsToCSV(MergeProjectStats(SucceededMaps, targetUsers))
      ELSE main.exit # "ok"

(***************************************************************************)
(* Further properties of the reducer.                                      *)
(***************************************************************************)
\* C18: every step of a run leaves each author's additions, deletions,
\* changes and total, and each per-project additions, deletions and changes,
\* at least as large as before, and removes no author entry and no project
\* entry (the diff stats of the remote are non-negative).
C18_TotalsNeverDecrease ==
  [][ \A a \in DOMAIN stats :
        /\ a \in DOMAIN stats'
        /\ \A field \in {"Additions", "Deletions", "Changes", "Total"} :
             stats'[a][field] >= stats[a][field]
        /\ \A p \in DOMAIN stats[a].Projects :
             /\ p \in DOMAIN stats'[a].Projects
             /\ \A field \in {"Additions", "Deletions", "Changes"} :
                  stats'[a].Projects[p][field] >= stats[a].Projects[p][field] ]_vars

\* an author with an entry was counted again with deletions, after a commit
\* of another author
C18_Witness ==
  \E i, j, k \in CountedIndexes :
    /\ i < j /\ j < k
    /\ arrivals[i].commit.AuthorName = arrivals[k].commit.AuthorName
    /\ arrivals[j].commit.AuthorName # arrivals[k].commit.AuthorName
    /\ arrivals[k].stats.Deletions > 0

NotMerge(w) == ~IsMerge(w)

\* C19: merge commits are filtered out of the statistics: every total of
\* every author of the map that GetProjectCommitStats returns is the sum
\* over the counted commits of the author that have at most one parent,
\* whatever the arrival order.
C19_MergeCommitsFiltered ==
  ret.hasMap =>
    LET counted == SelectSeq(CountedWorks, NotMerge)
    IN  \A a \in DOMAIN ret.stats :
          /\ ret.stats[a].Additions = SumStat(counted, a, "Additions")
          /\ ret.stats[a].Deletions = SumStat(counted, a, "Deletions")
          /\ ret.stats[a].Changes = SumStat(counted, a, "Total")
          /\ ret.stats[a].Total
               = SumStat(counted, a, "Additions") + SumStat(counted, a, "Deletions")

\* C20: the reducer changes its state only for a commit it counts: the
\* seen-signature set is the set of the signatures of the counted commits,
\* the processed-ID set the set of their IDs, and a commit dropped by any
\* rule leaves the two sets and the author map unchanged.
C20_DroppedChangesNothing ==
  /\ commitSignatures = { Signature(arrivals[i]) : i \in CountedIndexes }
  /\ processedCommits = { arrivals[i].commit.ID : i \in CountedIndexes }
  /\ IsSumOf(stats, CountedWorks, projectID)

(***************************************************************************)
(* Conservation of the queued commits.                                     *)
(***************************************************************************)
\* how many elements of the sequence are the given value
CountIn(s, x) == Cardinality({ i \in DOMAIN s : s[i] = x })

\* how many workers hold the commit: taken from commitChan, result not sent
HeldBy(ws, c) ==
  LET holders == { w \in BagToSet(ws) : w.pc \in {"request", "send"} /\ w.commit = c }
  IN  BagCardinality([w \in holders |-> ws[w]])

\* how many results the reducer received for the commit
ResultsFor(c) == Cardinality({ i \in DOMAIN arrivals : arrivals[i].commit = c })

\* C21: every commit the lister queued is on commitChan, held by exactly one
\* worker or was received once by the reducer, and when no goroutine of the
\* run can take another step every queued commit has yielded exactly one
\* result that the reducer received.
C21_QueuedCommitYieldsOneResult ==
  /\ \A c \in RemoteCommits :
       CountIn(queued, c) = CountIn(commitChan, c) + HeldBy(workers, c) + ResultsFor(c)
  /\ (cmd = "analyze" /\ ~PipelineCanStep) =>
       \A c \in RemoteCommits : ResultsFor(c) = CountIn(queued, c)

(***************************************************************************)
(* Retries of the listing request.                                         *)
(***************************************************************************)
\* every attempt the lister made on its current page failed
AllAttemptsFailed(call) == \A i \in 1..Len(call.log) : call.log[i] = "fail"

\* C22 (as amended): an error that doRequest returns for a listing page (a
\* transport error or a non-success status) is retried: the lister keeps
\* requesting the page while fewer than 5 attempts have failed and reports
\* the fatal fetch error of the page only after 5 attempts on it failed. A
\* body that arrives with a success status and cannot be decoded is not
\* retried: the lister reports the fatal decode error of the page at once.
C22_ListingErrorsRetried ==
  /\ (lister.pc = "request" /\ lister.call.log # << >>)
       => /\ AllAttemptsFailed(lister.call)
          /\ Len(lister.call.log) < maxRetries
          /\ errChan = << >>
  /\ (ListerFatal /\ lister.call.err # NoErr)
       => /\ AllAttemptsFailed(lister.call)
          /\ Len(lister.call.log) = maxRetries
          /\ ReportedErr = ListingErr(lister.page, TransportErr(maxRetries))
  /\ (ListerFatal /\ lister.call.err = NoErr)
       => /\ lister.call.log[Len(lister.call.log)] = "ok"
          /\ AllAttemptsFailed([log |-> SubSeq(lister.call.log, 1, Len(lister.call.log) - 1)])
          /\ lister.call.body = [kind |-> "malformed", attempt |-> Len(lister.call.log)]
          /\ ReportedErr = ListingErr(lister.page, DecodeErr)
  /\ ListerFatal => (errChan = << ReportedErr >> \/ ret.err = ReportedErr)

\* the second page failed fatally on its fifth failed attempt, after the
\* first page was listed with one attempt
C22_Witness ==
  /\ ListerFatal
  /\ lister.page = 2
  /\ lister.call.log = <<"fail", "fail", "fail", "fail", "fail">>
  /\ errChan = << ListingErr(2, TransportErr(maxRetries)) >>
  /\ queued # << >>

\* C22 as stated: whatever the error of the listing request (a malformed
\* body included), the lister reports a fatal listing error for a page only
\* after 5 attempts on that page have failed.
C22_Original ==
  ListerFatal => (AllAttemptsFailed(lister.call) /\ Len(lister.call.log) = maxRetries)

(***************************************************************************)
(* The backoff sleeps of the retry loops.                                  *)
(***************************************************************************)
\* the call slept once before each of its retries, 2^(k-1) time units
\* before the k-th
BackoffIsLocal(call) ==
  LET retries == IF call.log = << >> THEN 0 ELSE Len(call.log) - 1
  IN  call.slept = [k \in 1..retries |-> initialRetryDelay * 2^(k - 1)]

\* C23: in every retry loop (a listing page, a commit's detail, a page of
\* the project list) the sleep before the k-th retry is 2^(k-1) time units,
\* whatever retries earlier calls or earlier pages needed.
C23_BackoffLocalToCall ==
  /\ BackoffIsLocal(lister.call)
  /\ \A w \in BagToSet(workers) : BackoffIsLocal(w.call)
  /\ BackoffIsLocal(gp.call)

(***************************************************************************)
(* Accesses to the progress counters.                                      *)
(***************************************************************************)
\* a worker is about to read processedCount with a plain load while another
\* worker is about to write it
RacyRead == BagIn(ReadWorker, workers) /\ BagIn(AddWorker, workers)

\* C24: no reachable interleaving has a non-atomic read of a shared counter
\* concurrent with a write to it: never is one task at a plain read of
\* processedCount while another task is at a write of it.
C24_CounterAccessAtomic == ~RacyRead

(***************************************************************************)
(* Well-formedness of the author maps.                                     *)
(***************************************************************************)
\* the sum of a field over the given per-project entries of an author
RECURSIVE SumOverProjects(_, _, _)
SumOverProjects(projects, ids, field) ==
  IF ids = {} THEN 0
  ELSE LET p == CHOOSE q \in ids : TRUE
       IN  projects[p][field] + SumOverProjects(projects, ids \ {p}, field)

\* total is additions + deletions, and each top-level figure is the sum of
\* the figure over the author's per-project entries
WellFormedUser(u) ==
  /\ u.Total = u.Additions + u.Deletions
  /\ \A field \in {"Additions", "Deletions", "Changes"} :
       u[field] = SumOverProjects(u.Projects, DOMAIN u.Projects, field)

WellFormed(map) == \A a \in DOMAIN map : WellFormedUser(map[a])

\* every author of the map has exactly one per-project entry, of the project
SingleProject(map, project) == \A a \in DOMAIN map : DOMAIN map[a].Projects = {project}

\* every author of the map is the author of a counted commit
AuthorsCounted(map) ==
  \A a \in DOMAIN map : \E i \in CountedIndexes : arrivals[i].commit.AuthorName = a

\* the map of a run of another project that counted a commit of each author
OtherProjectMap ==
  LET succeeded(id) == [commit |-> CHOOSE c \in RemoteCommits : c.ID = id,
                        stats  |-> RemoteStats(id),
                        err    |-> NoErr]
  IN  ReduceAll(<< succeeded("c1"), succeeded("c3") >>, "p2").stats

\* C25: in every state of the reducer, and in the map the run returns, each
\* author's total is additions + deletions, each of additions, deletions and
\* changes is the sum of the field over the author's per-project entries,
\* every author has exactly one per-project entry, that of the run's
\* project, and is the author of a counted commit; the figures also add up
\* in every map that MergeProjectStats returns for the returned map and the
\* map of a second run of the project or of a run of another project, in
\* either order and under every allow-list.
C25_MapsWellFormed ==
  /\ WellFormed(stats)
  /\ SingleProject(stats, projectID)
  /\ AuthorsCounted(stats)
  /\ ret.hasMap =>
       /\ WellFormed(ret.stats)
       /\ SingleProject(ret.stats, projectID)
       /\ AuthorsCounted(ret.stats)
       /\ \A other \in {ret.stats, OtherProjectMap}, users \in TargetUserLists :
            /\ WellFormed(MergeProjectStats(<< ret.stats, other >>, users))
            /\ WellFormed(MergeProjectStats(<< other, ret.stats >>, users))

\* the run returned a map with two authors, one of them with deletions
C25_Witness ==
  /\ ret.hasMap
  /\ DOMAIN ret.stats = {"alice", "bob"}
  /\ ret.stats["bob"].Deletions = 2
  /\ ret.stats["alice"].Additions = 1
  /\ Len(arrivals) = MaxArrivals

(***************************************************************************)
(* MergeProjectStats on map objects: a Go map is a reference, so a         *)
(* UserStats value copied out of a map still points to the same Projects   *)
(* map. The heap holds the maps of the call: the maps author -> UserStats  *)
(* (Projects is an address) and the maps project ID -> ProjectStats.       *)
(***************************************************************************)
\* the address of a map author -> UserStats: the n-th input, or the map
\* that the n-th call made
OuterAddr(kind, n) == [kind |-> kind, n |-> n, author |-> ""]

\* the address of the Projects map of an author in such a map
NestedAddr(kind, n, author) == [kind |-> kind, n |-> n, author |-> author]

\* the heap that holds the given per-project maps, each map and each
\* Projects map an object of its own
HeapOf(maps) ==
  [ad \in { OuterAddr("in", i) : i \in DOMAIN maps }
            \cup UNION { { NestedAddr("in", i, a) : a \in DOMAIN maps[i] } : i \in DOMAIN maps }
     |-> IF ad.author = ""
           THEN [a \in DOMAIN maps[ad.n] |->
                   [maps[ad.n][a] EXCEPT !.Projects = NestedAddr("in", ad.n, a)]]
           ELSE maps[ad.n][ad.author].Projects]

\* the map at the address with every Projects address replaced by the map
\* it points to
Deref(h, addr) == [a \in DOMAIN h[addr] |-> [h[addr][a] EXCEPT !.Projects = h[@]]]

NewUserSharing(h, merged, author, data, k) ==
  [h EXCEPT ![merged] = (author :> [NoUserStats EXCEPT !.Projects = data.Projects]) @@ @]

\* mergedStats[author] = UserStats{Projects: make(map[string]ProjectStats)}
NewUser(h, merged, author, data, k) ==
  LET made == NestedAddr("out", k, author)
  IN  (made :> << >>)
        @@ [h EXCEPT ![merged] = (author :> [NoUserStats EXCEPT !.Projects = made]) @@ @]

\* for projectID, projectData := range data.Projects: the entry of the
\* project in the map at target is created when absent, read, added to and
\* written back
RECURSIVE HeapMergeProjects(_, _, _, _)
HeapMergeProjects(h, target, source, ids) ==
  IF ids = {} THEN h
  ELSE LET p           == CHOOSE q \in ids : TRUE
           projectData == h[source][p]
           existing    == IF p \in DOMAIN h[target] THEN h[target][p] ELSE NoProjectStats
           written     == AddProjectStats(existing, projectData.Additions,
                                          projectData.Deletions, projectData.Changes)
       IN  HeapMergeProjects([h EXCEPT ![target] = (p :> written) @@ @],
                             target, source, ids \ {p})

\* the body of the loop over a map's authors for an author that is kept
HeapMergeUser(h, merged, author, data, k) ==
  LET h1        == IF author \in DOMAIN h[merged] THEN h
                   ELSE NewUser(h, merged, author, data, k)
      userStats == [h1[merged][author] EXCEPT !.Additions = @ + data.Additions,
                                              !.Deletions = @ + data.Deletions,
                                              !.Changes = @ + data.Changes,
                                              !.Total = @ + data.Total]
      h2        == [h1 EXCEPT ![merged] = (author :> userStats) @@ @]
  IN  HeapMergeProjects(h2, userStats.Projects, data.Projects, DOMAIN h2[data.Projects])

\* for author, data := range stats
RECURSIVE HeapMergeOne(_, _, _, _, _, _)
HeapMergeOne(h, merged, source, authors, targetUsersMap, k) ==
  IF authors = {} THEN h
  ELSE LET a  == CHOOSE b \in authors : TRUE
           h2 == IF IsSkipped(targetUsersMap, a) THEN h
                 ELSE HeapMergeUser(h, merged, a, h[source][a], k)
       IN  HeapMergeOne(h2, merged, source, authors \ {a}, targetUsersMap, k)

\* for _, stats := range projectsStats
RECURSIVE HeapMergeAll(_, _, _, _, _)
HeapMergeAll(h, merged, sources, targetUsersMap, k) ==
  IF sources = << >> THEN h
  ELSE HeapMergeAll(HeapMergeOne(h, merged, Head(sources), DOMAIN h[Head(sources)],
                                 targetUsersMap, k),
                    merged, Tail(sources), targetUsersMap, k)

\* the k-th call of MergeProjectStats on the maps at the given addresses:
\* the heap after the call, which returns the map made at OuterAddr("out", k)
HeapMergeProjectStats(h, sources, users, k) ==
  HeapMergeAll((OuterAddr("out", k) :> << >>) @@ h, OuterAddr("out", k), sources,
               TargetUsersMap(users), k)

InitMergeHeap ==
  /\ InitPipelineIdle
  /\ main = [NoMain EXCEPT !.pc = "merge"]
  /\ projectIDs = << >>
  /\ projectsStats \in SeqsUpTo(StatsMaps, MaxHeapMaps)
  /\ targetUsers \in TargetUserLists
  /\ mergedStats = << >>
  /\ exported = << >>
  /\ runs = << >>
  /\ heap = HeapOf(projectsStats)
  /\ inputs = [i \in DOMAIN projectsStats |-> OuterAddr("in", i)]
  /\ results = << >>

\* a call of MergeProjectStats on the input maps
MergeCall ==
  /\ panicked = ""
  /\ main.pc = "merge"
  /\ Len(results) < MaxMergeCalls
  /\ heap' = HeapMergeProjectStats(heap, inputs, targetUsers, Len(results) + 1)
  /\ results' = Append(results, OuterAddr("out", Len(results) + 1))
  /\ mergedStats' = Deref(heap', OuterAddr("out", Len(results) + 1))
  /\ UNCHANGED << projectID, ret, panicked, main, projectIDs, projectsStats, targetUsers,
                  exported, runs, inputs >>
  /\ UNCHANGED pipelineVars

NextMergeHeap == MergeCall

SpecMergeHeap == InitMergeHeap /\ [][NextMergeHeap]_vars

(***************************************************************************)
(* The frame of MergeProjectStats.                                         *)
(***************************************************************************)
\* the addresses of the Projects maps that the map at the address points to
ProjectsAddrs(h, addr) == { h[addr][a].Projects : a \in DOMAIN h[addr] }

\* the addresses of all map objects of the inputs
InputAddrs ==
  { inputs[i] : i \in DOMAIN inputs }
    \cup UNION { ProjectsAddrs(heap, inputs[i]) : i \in DOMAIN inputs }

\* the addresses of all map objects of the k-th returned map
ResultAddrs(k) == {results[k]} \cup ProjectsAddrs(heap, results[k])

\* C26: after every call of MergeProjectStats each input map holds what it
\* held before, the Projects map of every author included; no map object of
\* a returned map is a map object of an input or of another returned map;
\* and every call on the same inputs returns the same map.
C26_MergeLeavesInputs ==
  /\ \A i \in DOMAIN inputs : Deref(heap, inputs[i]) = projectsStats[i]
  /\ \A k \in DOMAIN results :
       /\ ResultAddrs(k) \cap InputAddrs = {}
       /\ \A j \in DOMAIN results : j # k => ResultAddrs(j) \cap ResultAddrs(k) = {}
       /\ Deref(heap, results[k]) = Deref(heap, results[1])

\* two maps with entries of alice for the same project were merged twice
C26_Witness ==
  /\ Len(results) = 2
  /\ Len(inputs) = 2
  /\ "alice" \in DOMAIN projectsStats[1] \cap DOMAIN projectsStats[2]
  /\ "alice" \in DOMAIN mergedStats
  /\ DOMAIN mergedStats["alice"].Projects = {"p1"}
  /\ mergedStats["alice"].Additions = 2

=============================================================================
